---- MODULE Spec2Model ----
(***************************************************************************)
(* A model of the audio loader of sorhawell/audiotest (Rust).              *)
(*                                                                         *)
(*   decode_symphonia::load   the bounded packet loop that fills a         *)
(*                            (channels, frames) matrix from a window      *)
(*   misc::to_mono_ndarray    the per-frame mean over channels             *)
(*                                                                         *)
(* f64 values are modelled as exact rationals <<num, den>> (den > 0), so   *)
(* the rounding of f64 arithmetic itself is not part of the model.  u32    *)
(* keeps its saturating / checked conversions, with u32::MAX scaled down   *)
(* to MaxU32 so that the conversions that do not fit are reachable.        *)
(***************************************************************************)
EXTENDS Integers, Sequences, FiniteSets, TLC

\* ---------------------------------------------------------------- bounds
\* u32::MAX, scaled to the ranges of the model.
MaxU32 == 4
\* n_frames of the codec parameters ranges over 0..MaxNFrames (a u64).
MaxNFrames == 6
\* sample_rate ranges over 1..MaxSr.
MaxSr == 2
\* the channel count ranges over 1..MaxChannels.
MaxChannels == 2
\* offset and duration are multiples of 1/TimeDen seconds.
TimeDen == 2
\* offset ranges over -1/TimeDen .. MaxOffNum/TimeDen seconds.
MaxOffNum == 6
\* duration is absent or ranges over -1/TimeDen .. MaxDurNum/TimeDen seconds.
MaxDurNum == 6
\* a decoded packet holds 1..MaxBlock frames.
MaxBlock == 3
\* the demuxer yields at most MaxPackets packets before it ends the stream.
MaxPackets == 3
\* to_mono is applied to matrices of up to MaxMonoFrames frames.
MaxMonoFrames == 2

\* i32::MAX, scaled to the ranges of the model.
MaxI32 == 9
\* get_duration: n_fft ranges over 0..MaxNfft, hop_length over 0..MaxHop.
MaxNfft == 4
MaxHop == 3
\* get_duration: dim(s)[0] ranges over 0..MaxSpecFrames.
MaxSpecFrames == 4
\* get_duration: nrow(r_arr) ranges over 0..MaxBufRows.
MaxBufRows == 2

\* play: matrices of 1..MaxPlayChannels rows and 0..MaxPlayFrames columns.
MaxPlayChannels == 2
MaxPlayFrames == 3
\* play: an output buffer holds 1..MaxBuffer samples; the device invokes the
\* callback at most MaxCalls times before the stream is dropped.
MaxBuffer == 4
MaxCalls == 3
\* f32, scaled to the ranges of the model: the multiples of 1/F32Den.
F32Den == 2

\* Option<T>: None, or Some(x) holding x.
None == <<>>
Some(x) == <<x>>
Unwrap(o) == o[1]

\* ------------------------------------------------------------- rationals
Abs(x) == IF x < 0 THEN -x ELSE x

RECURSIVE Gcd(_, _)
Gcd(a, b) == IF b = 0 THEN a ELSE Gcd(b, a % b)

\* The rational n/d (d > 0) in lowest terms.
Rat(n, d) ==
    LET g == Gcd(Abs(n), d)
    IN  IF g = 0 THEN <<0, 1>> ELSE <<n \div g, d \div g>>

RatInt(n) == <<n, 1>>
RatAdd(x, y) == Rat(x[1] * y[2] + y[1] * x[2], x[2] * y[2])
RatSub(x, y) == Rat(x[1] * y[2] - y[1] * x[2], x[2] * y[2])
RatMulInt(x, k) == Rat(x[1] * k, x[2])
RatDivInt(x, k) == Rat(x[1], x[2] * k)
RatLe(x, y) == x[1] * y[2] <= y[1] * x[2]
RatMin(x, y) == IF RatLe(x, y) THEN x ELSE y
Floor(x) == x[1] \div x[2]

\* `x as u32` of an f64: rounds toward zero and saturates at 0 and u32::MAX.
AsU32(x) ==
    IF x[1] < 0 THEN 0
    ELSE IF Floor(x) > MaxU32 THEN MaxU32
    ELSE Floor(x)

\* ---------------------------------------------------------------- arrays
\* ndarray::Array2<f64>: a shape and one cell per (row, column), 0-based.
Zeros(r, c) ==
    [nrows |-> r, ncols |-> c,
     cell |-> [p \in (0 .. r - 1) \X (0 .. c - 1) |-> RatInt(0)]]

RECURSIVE SumRows(_, _, _)
SumRows(a, col, r) ==
    IF r = 0 THEN RatInt(0)
    ELSE RatAdd(SumRows(a, col, r - 1), a.cell[<<r - 1, col>>])

\* arr.mean_axis(Axis(0)): None for an axis of length 0, else the sum of each
\* column divided by the number of rows.
mean_axis_Sum(a) ==
    IF a.nrows = 0 THEN None
    ELSE Some([col \in 0 .. a.ncols - 1 |-> SumRows(a, col, a.nrows)])
mean_axis(a) ==
    IF a.nrows = 0 THEN None
    ELSE Some([col \in 0 .. a.ncols - 1 |->
                 RatDivInt(SumRows(a, col, a.nrows), a.nrows)])

\* misc::to_mono_ndarray: mean over the channels, reshaped to (1, ncols);
\* None stands for the panic of expect("cannot mean_axis").
to_mono_ndarray(a) ==
    LET m == mean_axis(a)
    IN  IF m = None THEN None
        ELSE Some([nrows |-> 1, ncols |-> a.ncols,
                   cell |-> [p \in {0} \X (0 .. a.ncols - 1) |->
                                Unwrap(m)[p[2]]]])

Transpose(a) ==
    [nrows |-> a.ncols, ncols |-> a.nrows,
     cell |-> [p \in (0 .. a.ncols - 1) \X (0 .. a.nrows - 1) |->
                  a.cell[<<p[2], p[1]>>]]]

\* ------------------------------------------------------------------ state
VARIABLES
    pc,            \* load: "idle", "loop", "returned" or "failed"
    err,           \* the panic message of a failed call, else None
    channels,      \* codec_params().channels.count()
    n_frames,      \* codec_params().n_frames
    sr,            \* codec_params().sample_rate
    mono,          \* argument mono
    offset,        \* argument offset, seconds
    duration,      \* argument duration, seconds or None
    offset_samples,             \* frames still to discard
    duration_to_decode_samples, \* frames still to write
    sample_buf,    \* None until the first decoded packet
    arr,           \* the matrix; the returned value once pc = "returned"
    idx,           \* write cursor (column)
    pos,           \* frames of the selected track decoded so far
    packets,       \* calls of format.next_packet()
    decodes,       \* calls of decoder.decode()
    last,          \* what the last collaborator call reported
    m_pc,          \* to_mono: "idle", "done" or "failed"
    m_in,          \* to_mono: the matrix handed in
    m_out,         \* to_mono: the matrix returned, else None
    gd_pc,         \* get_duration: "idle", "done" or "failed"
    gd_args,       \* get_duration: the arguments of the call
    gd_out,        \* get_duration: the source used and the value returned
    p_pc,          \* play: "idle", "failed", "playing", "panicked", "stopped"
    p_arr,         \* play: the matrix handed in
    p_data,        \* play: data_interleaved
    p_next,        \* play: samples taken from data_interleaved_iter
    p_handed,      \* play: every sample written to an output buffer, in order
    p_out,         \* play: the output buffer of the last callback, slot by
                   \* slot: Some(value written), or None where nothing was
    p_calls        \* play: invocations of the output callback

loadVars ==
    <<pc, err, channels, n_frames, sr, mono, offset, duration, offset_samples,
      duration_to_decode_samples, sample_buf, arr, idx, pos, packets, decodes,
      last>>
monoVars == <<m_pc, m_in, m_out>>
durVars == <<gd_pc, gd_args, gd_out>>
playVars == <<p_pc, p_arr, p_data, p_next, p_handed, p_out, p_calls>>
vars == <<loadVars, monoVars, durVars, playVars>>

\* ------------------------------------------------------------ the stream
\* The sample of channel c at frame f of the selected track: distinct and
\* non-zero, so that a dropped, repeated or misplaced sample shows.
Sample(c, f) == RatInt(f * channels + c + 1)

\* buf.samples() after copy_interleaved_ref: the k frames from frame p on,
\* frame-major, channel-minor.
Interleaved(p, k) ==
    [n \in 1 .. k * channels |->
        Sample((n - 1) % channels, p + ((n - 1) \div channels))]

OffsetArgs == {<<k, TimeDen>> : k \in -1 .. MaxOffNum}
DurationArgs == {None} \cup {Some(<<k, TimeDen>>) : k \in -1 .. MaxDurNum}

\* ------------------------------------------------------------------ load
\* file_time_duration - offset
Remainder(nf, s, off) == RatSub(Rat(nf, s), off)

\* Lines 61-65: duration_to_decode.
DurationToDecode_Unclamped(nf, s, off, dur) ==
    IF dur = None THEN Remainder(nf, s, off) ELSE Unwrap(dur)
DurationToDecode(nf, s, off, dur) ==
    RatMin(IF dur = None THEN Remainder(nf, s, off) ELSE Unwrap(dur),
           Remainder(nf, s, off))

\* Line 67: duration_to_decode <= 0.
DurationInvalid_Strict(dtd) == dtd[1] < 0
DurationInvalid(dtd) == RatLe(dtd, RatInt(0))

\* Line 73: (offset_samples as u64) >= n_frames.
OffsetInvalid(offs, nf) == offs >= nf

\* Line 140: &samples[(offset_samples as usize) * channels..], as the
\* 1-based position of the first sample kept.
SliceStart_Frames(offs) == offs + 1
SliceStart(offs) == offs * channels + 1

NoError == "none"

Panic(msg) ==
    /\ pc' = "failed"
    /\ err' = msg

\* Lines 165-169: the optional mixdown and the return of the matrix.
\* to_mono_ndarray panics exactly when mean_axis is None: no rows.
Finish(a) ==
    IF mono /\ a.nrows = 0
    THEN /\ Panic("cannot mean_axis")
         /\ arr' = a
    ELSE /\ pc' = "returned"
         /\ arr' = IF mono THEN Unwrap(to_mono_ndarray(a)) ELSE a
         /\ err' = NoError

\* Lines 25-59: the file cannot be opened or probed, there is no default
\* track or decoder, or a codec parameter is absent: expect() panics.
SetupErrors ==
    {"cannot open file", "unsupported format", "cannot get default_track",
     "cannot create decoder", "cannot retrieve the number of channels",
     "cannot retrieve the number of frames", "cannot retrieve the sample rate"}

LoadSetupFails ==
    /\ pc = "idle"
    /\ \E msg \in SetupErrors : Panic(msg)
    /\ UNCHANGED <<channels, n_frames, sr, mono, offset, duration,
                   offset_samples, duration_to_decode_samples, sample_buf,
                   arr, idx, pos, packets, decodes, last, monoVars, durVars,
                   playVars>>

\* Lines 47-82 of load, with every codec parameter present (channels >= 1):
\* window validation and allocation.
LoadBegin ==
    /\ pc = "idle"
    /\ \E ch \in 1 .. MaxChannels, nf \in 0 .. MaxNFrames, s \in 1 .. MaxSr,
          m \in BOOLEAN, off \in OffsetArgs, dur \in DurationArgs :
        LET dtd == DurationToDecode(nf, s, off, dur)
            offs == AsU32(RatMulInt(off, s))
            len == AsU32(RatMulInt(dtd, s))
        IN  /\ channels' = ch
            /\ n_frames' = nf
            /\ sr' = s
            /\ mono' = m
            /\ offset' = off
            /\ duration' = dur
            /\ IF DurationInvalid(dtd)
               THEN /\ Panic("duration must be a positive number")
                    /\ UNCHANGED <<offset_samples, duration_to_decode_samples,
                                   arr, idx>>
               ELSE IF OffsetInvalid(offs, nf)
               THEN /\ Panic("offset bigger than or equal to total duration")
                    /\ offset_samples' = offs
                    /\ UNCHANGED <<duration_to_decode_samples, arr, idx>>
               ELSE /\ pc' = "loop"
                    /\ err' = NoError
                    /\ offset_samples' = offs
                    /\ duration_to_decode_samples' = len
                    /\ arr' = Zeros(ch, len)
                    /\ idx' = 0
    /\ UNCHANGED <<sample_buf, pos, packets, decodes, last, monoVars, durVars,
                   playVars>>

\* next_packet() reports the end of the stream (IoError, UnexpectedEof):
\* break, then lines 165-169.
PacketEof_Panics ==
    /\ pc = "loop"
    /\ packets' = packets + 1
    /\ last' = "eof"
    /\ Panic("end of stream")
    /\ UNCHANGED <<channels, n_frames, sr, mono, offset, duration,
                   offset_samples, duration_to_decode_samples, sample_buf,
                   arr, idx, pos, decodes, monoVars, durVars,
                   playVars>>
PacketEof_Continues ==
    /\ pc = "loop"
    /\ packets' = packets + 1
    /\ last' = "eof"
    /\ UNCHANGED <<pc, err, channels, n_frames, sr, mono, offset, duration,
                   offset_samples, duration_to_decode_samples, sample_buf,
                   arr, idx, pos, decodes, monoVars, durVars,
                   playVars>>
PacketEof ==
    /\ pc = "loop"
    /\ packets' = packets + 1
    /\ last' = "eof"
    /\ Finish(arr)
    /\ UNCHANGED <<channels, n_frames, sr, mono, offset, duration,
                   offset_samples, duration_to_decode_samples, sample_buf,
                   idx, pos, decodes, monoVars, durVars,
                   playVars>>

\* next_packet() reports any other error: panic.
PacketError_Breaks ==
    /\ pc = "loop"
    /\ packets' = packets + 1
    /\ last' = "packet_error"
    /\ Finish(arr)
    /\ UNCHANGED <<channels, n_frames, sr, mono, offset, duration,
                   offset_samples, duration_to_decode_samples, sample_buf,
                   idx, pos, decodes, monoVars, durVars,
                   playVars>>
PacketError ==
    /\ pc = "loop"
    /\ packets' = packets + 1
    /\ last' = "packet_error"
    /\ Panic("next_packet error")
    /\ UNCHANGED <<channels, n_frames, sr, mono, offset, duration,
                   offset_samples, duration_to_decode_samples, sample_buf,
                   arr, idx, pos, decodes, monoVars, durVars,
                   playVars>>

\* A packet of another track: continue.
PacketOtherTrack_Decoded ==
    /\ pc = "loop"
    /\ packets < MaxPackets
    /\ packets' = packets + 1
    /\ decodes' = decodes + 1
    /\ last' = "other_track"
    /\ offset_samples' = IF offset_samples > 0 THEN offset_samples - 1 ELSE 0
    /\ UNCHANGED <<pc, err, channels, n_frames, sr, mono, offset, duration,
                   duration_to_decode_samples, sample_buf,
                   arr, idx, pos, monoVars, durVars,
                   playVars>>
PacketOtherTrack ==
    /\ pc = "loop"
    /\ packets < MaxPackets
    /\ packets' = packets + 1
    /\ last' = "other_track"
    /\ UNCHANGED <<pc, err, channels, n_frames, sr, mono, offset, duration,
                   offset_samples, duration_to_decode_samples, sample_buf,
                   arr, idx, pos, decodes, monoVars, durVars,
                   playVars>>

\* decode() reports Error::DecodeError: panic.
PacketDecodeError_Skips ==
    /\ pc = "loop"
    /\ packets < MaxPackets
    /\ packets' = packets + 1
    /\ decodes' = decodes + 1
    /\ last' = "decode_error"
    /\ UNCHANGED <<pc, err, channels, n_frames, sr, mono, offset, duration,
                   offset_samples, duration_to_decode_samples, sample_buf,
                   arr, idx, pos, monoVars, durVars,
                   playVars>>
PacketDecodeError ==
    /\ pc = "loop"
    /\ packets < MaxPackets
    /\ packets' = packets + 1
    /\ decodes' = decodes + 1
    /\ last' = "decode_error"
    /\ Panic("decode error")
    /\ UNCHANGED <<channels, n_frames, sr, mono, offset, duration,
                   offset_samples, duration_to_decode_samples, sample_buf,
                   arr, idx, pos, monoVars, durVars,
                   playVars>>

\* decode() reports any other error: break, then lines 165-169.
PacketDecoderOtherError ==
    /\ pc = "loop"
    /\ packets < MaxPackets
    /\ packets' = packets + 1
    /\ decodes' = decodes + 1
    /\ last' = "decoder_error"
    /\ Finish(arr)
    /\ UNCHANGED <<channels, n_frames, sr, mono, offset, duration,
                   offset_samples, duration_to_decode_samples, sample_buf,
                   idx, pos, monoVars, durVars,
                   playVars>>

\* Lines 144-157: the copy of the samples from position n on into the matrix.
\* out: "next" (run exhausted), "full" (break 'outer), "oob" (arr[[ch, idx]]
\* out of bounds), "underflow" (u32 subtraction below zero, checked build).
RECURSIVE CopySamples_EarlyAdvance(_, _, _, _, _, _)
CopySamples_EarlyAdvance(samples, n, a, i, rem, build) ==
    IF n > Len(samples)
    THEN [arr |-> a, idx |-> i, rem |-> rem, out |-> "next"]
    ELSE
      LET ch == (n - 1) % channels
          endOfFrame == ch = 0
      IN  IF i >= a.ncols
          THEN [arr |-> a, idx |-> i, rem |-> rem, out |-> "oob"]
          ELSE
            LET a2 == [a EXCEPT !.cell[<<ch, i>>] = samples[n]]
                i2 == IF endOfFrame THEN i + 1 ELSE i
                rem2 == IF ~endOfFrame THEN rem
                        ELSE IF rem = 0 THEN MaxU32 ELSE rem - 1
            IN  IF endOfFrame /\ rem = 0 /\ build = "debug"
                THEN [arr |-> a2, idx |-> i2, rem |-> rem, out |-> "underflow"]
                ELSE IF rem2 = 0
                THEN [arr |-> a2, idx |-> i2, rem |-> rem2, out |-> "full"]
                ELSE CopySamples_EarlyAdvance(samples, n + 1, a2, i2, rem2,
                                              build)
RECURSIVE CopySamples_NoBreak(_, _, _, _, _, _)
CopySamples_NoBreak(samples, n, a, i, rem, build) ==
    IF n > Len(samples)
    THEN [arr |-> a, idx |-> i, rem |-> rem, out |-> "next"]
    ELSE
      LET ch == (n - 1) % channels
          endOfFrame == ch = channels - 1
      IN  IF i >= a.ncols
          THEN [arr |-> a, idx |-> i, rem |-> rem, out |-> "oob"]
          ELSE
            LET a2 == [a EXCEPT !.cell[<<ch, i>>] = samples[n]]
                i2 == IF endOfFrame THEN i + 1 ELSE i
                rem2 == IF ~endOfFrame THEN rem
                        ELSE IF rem = 0 THEN MaxU32 ELSE rem - 1
            IN  IF endOfFrame /\ rem = 0 /\ build = "debug"
                THEN [arr |-> a2, idx |-> i2, rem |-> rem, out |-> "underflow"]
                ELSE CopySamples_NoBreak(samples, n + 1, a2, i2, rem2, build)
RECURSIVE CopySamples(_, _, _, _, _, _)
CopySamples(samples, n, a, i, rem, build) ==
    IF n > Len(samples)
    THEN [arr |-> a, idx |-> i, rem |-> rem, out |-> "next"]
    ELSE
      LET ch == (n - 1) % channels
          endOfFrame == ch = channels - 1
      IN  IF i >= a.ncols
          THEN [arr |-> a, idx |-> i, rem |-> rem, out |-> "oob"]
          ELSE
            LET a2 == [a EXCEPT !.cell[<<ch, i>>] = samples[n]]
                i2 == IF endOfFrame THEN i + 1 ELSE i
                rem2 == IF ~endOfFrame THEN rem
                        ELSE IF rem = 0 THEN MaxU32 ELSE rem - 1
            IN  IF endOfFrame /\ rem = 0 /\ build = "debug"
                THEN [arr |-> a2, idx |-> i2, rem |-> rem, out |-> "underflow"]
                ELSE IF rem2 = 0
                THEN [arr |-> a2, idx |-> i2, rem |-> rem2, out |-> "full"]
                ELSE CopySamples(samples, n + 1, a2, i2, rem2, build)

\* decode() succeeds with a run of k frames: lines 103-158.
PacketDecoded ==
    /\ pc = "loop"
    /\ packets < MaxPackets
    /\ \E k \in 1 .. MaxBlock, build \in {"debug", "release"} :
        LET samples == Interleaved(pos, k)
            frames_in_block == Len(samples) \div channels
        IN  /\ packets' = packets + 1
            /\ decodes' = decodes + 1
            /\ last' = "decoded"
            /\ sample_buf' = Some("SampleBuffer")
            /\ pos' = pos + k
            /\ IF Len(samples) > MaxU32
               THEN /\ Panic("cannot safely convert u64 to u32")
                    /\ UNCHANGED <<offset_samples, duration_to_decode_samples,
                                   arr, idx>>
               ELSE IF offset_samples >= frames_in_block
               THEN /\ offset_samples' = offset_samples - frames_in_block
                    /\ UNCHANGED <<pc, err, duration_to_decode_samples, arr,
                                   idx>>
               ELSE
                 LET r == CopySamples(samples, SliceStart(offset_samples),
                                      arr, idx, duration_to_decode_samples,
                                      build)
                 IN  /\ offset_samples' = 0
                     /\ idx' = r.idx
                     /\ duration_to_decode_samples' = r.rem
                     /\ CASE r.out = "oob" ->
                               /\ Panic("ndarray: index out of bounds")
                               /\ arr' = r.arr
                          [] r.out = "underflow" ->
                               /\ Panic("attempt to subtract with overflow")
                               /\ arr' = r.arr
                          [] r.out = "full" -> Finish(r.arr)
                          [] OTHER ->
                               /\ arr' = r.arr
                               /\ UNCHANGED <<pc, err>>
    /\ UNCHANGED <<channels, n_frames, sr, mono, offset, duration, monoVars, durVars,
                   playVars>>

InitLoad ==
    /\ pc = "idle"
    /\ err = NoError
    /\ channels = 1
    /\ n_frames = 0
    /\ sr = 1
    /\ mono = FALSE
    /\ offset = RatInt(0)
    /\ duration = None
    /\ offset_samples = 0
    /\ duration_to_decode_samples = 0
    /\ sample_buf = None
    /\ arr = Zeros(0, 0)
    /\ idx = 0
    /\ pos = 0
    /\ packets = 0
    /\ decodes = 0
    /\ last = "none"

InitMonoIdle ==
    /\ m_pc = "idle"
    /\ m_in = Zeros(0, 0)
    /\ m_out = None

InitDurationIdle ==
    /\ gd_pc = "idle"
    /\ gd_args = None
    /\ gd_out = None

InitPlayIdle ==
    /\ p_pc = "idle"
    /\ p_arr = Zeros(0, 0)
    /\ p_data = <<>>
    /\ p_next = 0
    /\ p_handed = <<>>
    /\ p_out = <<>>
    /\ p_calls = 0

Init == InitLoad /\ InitMonoIdle /\ InitDurationIdle /\ InitPlayIdle

Next ==
    \/ LoadSetupFails
    \/ LoadBegin
    \/ PacketEof
    \/ PacketError
    \/ PacketOtherTrack
    \/ PacketDecodeError
    \/ PacketDecoderOtherError
    \/ PacketDecoded

Spec == Init /\ [][Next]_vars

\* load runs on the calling thread and every collaborator call returns: a
\* step that can be taken is taken.
SpecLive == Init /\ [][Next]_vars /\ WF_vars(Next)

\* --------------------------------------------------------------- to_mono
MonoSamples == {RatInt(-1), RatInt(0), RatInt(1)}

Matrices(r, c) ==
    {[nrows |-> r, ncols |-> c, cell |-> f] :
        f \in [(0 .. r - 1) \X (0 .. c - 1) -> MonoSamples]}

\* misc::to_mono_ndarray applied to a (channels, frames) matrix.
MonoNdarray ==
    /\ m_pc = "idle"
    /\ IF to_mono_ndarray(m_in) = None
       THEN /\ m_pc' = "failed"
            /\ m_out' = None
       ELSE /\ m_pc' = "done"
            /\ m_out' = to_mono_ndarray(m_in)
    /\ UNCHANGED <<m_in, loadVars, durVars, playVars>>

\* lib.rs to_mono: the R matrix (samples, channels) is viewed transposed,
\* mixed down, and the (1, samples) result handed back transposed.
to_mono(r_arr) ==
    LET arr_mono == to_mono_ndarray(Transpose(r_arr))
    IN  IF arr_mono = None THEN None ELSE Some(Transpose(Unwrap(arr_mono)))

MonoR ==
    /\ m_pc = "idle"
    /\ IF to_mono(m_in) = None
       THEN /\ m_pc' = "failed_r"
            /\ m_out' = None
       ELSE /\ m_pc' = "done_r"
            /\ m_out' = to_mono(m_in)
    /\ UNCHANGED <<m_in, loadVars, durVars, playVars>>

InitMono ==
    /\ InitLoad
    /\ InitDurationIdle
    /\ InitPlayIdle
    /\ m_pc = "idle"
    /\ m_out = None
    /\ \E r \in 0 .. MaxChannels, c \in 0 .. MaxMonoFrames :
          m_in \in Matrices(r, c)

NextMono == MonoNdarray \/ MonoR

SpecMono == InitMono /\ [][NextMono]_vars

\* ----------------------------------------------------------- get_duration
\* i32 arithmetic: the value wrapped to the two's-complement range, as a
\* release build computes it; a debug build panics where Fits32 is false.
Fits32(x) == -MaxI32 - 1 <= x /\ x <= MaxI32
Wrap32(x) == ((x + MaxI32 + 1) % (2 * MaxI32 + 2)) - MaxI32 - 1

\* Lines 101-107 of lib.rs: n_samples, with whether an operation overflowed.
ShapeSamples_FullWindow(nfft, hop, t, center) ==
    LET prod == hop * (t - 1)
        total == nfft + Wrap32(prod)
        cut == IF center THEN Wrap32(total) - nfft ELSE Wrap32(total)
    IN  [value |-> Wrap32(cut),
         overflow |-> ~Fits32(prod) \/ ~Fits32(total) \/ ~Fits32(cut)]
ShapeSamples(nfft, hop, t, center) ==
    LET prod == hop * (t - 1)
        total == nfft + Wrap32(prod)
        cut == IF center THEN Wrap32(total) - 2 * (nfft \div 2)
               ELSE Wrap32(total)
    IN  [value |-> Wrap32(cut),
         overflow |-> ~Fits32(prod) \/ ~Fits32(total) \/ ~Fits32(cut)]

\* decode_symphonia::get_duration(path, filetype), the function lib.rs
\* calls: n_frames / sr of the file's default track.
GetDurationFile(f) ==
    IF ~f.readable THEN [pc |-> "failed", src |-> "file", value |-> None]
    ELSE [pc |-> "done", src |-> "file",
          value |-> Some(Rat(f.n_frames, f.sr))]

\* Lines 94-111: the duration from the shape of s.
GetDurationShape(a, build) ==
    LET fail == [pc |-> "failed", src |-> "s", value |-> None]
    IN  IF a.sr <= 0 \/ a.n_fft <= 0 \/ a.hop_length <= 0 THEN fail
        ELSE IF Len(Unwrap(a.s)) = 0 THEN fail   \* "cannot get dimensions"
        ELSE IF Len(Unwrap(a.s)) # 3 THEN fail   \* "s must be a 3D array"
        ELSE
          LET n == ShapeSamples(a.n_fft, a.hop_length, Unwrap(a.s)[1],
                                a.center)
          IN  IF n.overflow /\ build = "debug" THEN fail
              ELSE [pc |-> "done", src |-> "s",
                    value |-> Some(Rat(n.value, a.sr))]

\* Lines 112-117: the duration from the raw buffer and the rate.
GetDurationBuffer(a) ==
    LET fail == [pc |-> "failed", src |-> "r_arr", value |-> None]
    IN  IF ~Unwrap(a.r_arr).is_matrix THEN fail
        ELSE IF a.sr <= 0 THEN fail
        ELSE [pc |-> "done", src |-> "r_arr",
              value |-> Some(Rat(Unwrap(a.r_arr).nrows, a.sr))]

\* Lines 84-119: match (r_arr.is_null(), fname, s.is_null()).
get_duration_BufferFirst(a, build) ==
    IF a.fname # None THEN GetDurationFile(Unwrap(a.fname))
    ELSE IF a.r_arr # None THEN GetDurationBuffer(a)
    ELSE IF a.s # None THEN GetDurationShape(a, build)
    ELSE [pc |-> "failed", src |-> "none", value |-> None]
get_duration(a, build) ==
    IF a.fname # None THEN GetDurationFile(Unwrap(a.fname))
    ELSE IF a.s # None THEN GetDurationShape(a, build)
    ELSE IF a.r_arr # None THEN GetDurationBuffer(a)
    ELSE [pc |-> "failed", src |-> "none", value |-> None]

\* The arguments of a call: Robj r_arr and s (NULL, or an object), the
\* integers, center, and the optional file with what its header holds.
BufferArgs ==
    {None} \cup
    {Some([is_matrix |-> m, nrows |-> n]) :
        m \in BOOLEAN, n \in 0 .. MaxBufRows}
ShapeArgs ==
    {None, Some(<<>>)} \cup
    {Some(<<t, 1>>) : t \in 0 .. MaxSpecFrames} \cup
    {Some(<<t, 1, 1>>) : t \in 0 .. MaxSpecFrames}
FileArgs ==
    {None, Some([readable |-> FALSE, n_frames |-> 0, sr |-> 1])} \cup
    {Some([readable |-> TRUE, n_frames |-> MaxNFrames, sr |-> r]) :
        r \in 1 .. MaxSr}
DurationCalls ==
    [r_arr : BufferArgs, sr : 0 .. MaxSr, s : ShapeArgs,
     n_fft : 0 .. MaxNfft, hop_length : 0 .. MaxHop, center : BOOLEAN,
     fname : FileArgs]

GetDuration ==
    /\ gd_pc = "idle"
    /\ \E build \in {"debug", "release"} :
         LET r == get_duration(Unwrap(gd_args), build)
         IN  /\ gd_pc' = r.pc
             /\ gd_out' = Some([src |-> r.src, value |-> r.value])
    /\ UNCHANGED <<gd_args, loadVars, monoVars, playVars>>

InitDuration ==
    /\ InitLoad
    /\ InitMonoIdle
    /\ InitPlayIdle
    /\ gd_pc = "idle"
    /\ gd_out = None
    /\ \E a \in DurationCalls : gd_args = Some(a)

NextDuration == GetDuration

SpecDuration == InitDuration /\ [][NextDuration]_vars

\* ------------------------------------------------------------------ play
\* `x as f32` of an f64: the nearest value of the f32 grid.
AsF32(x) == Rat((2 * x[1] * F32Den + x[2]) \div (2 * x[2]), F32Den)

\* Lines 9-15: data_interleaved.
Interleave_ChannelMajor(a) ==
    [k \in 1 .. a.nrows * a.ncols |->
        AsF32(a.cell[<<(k - 1) \div a.ncols, (k - 1) % a.ncols>>])]
Interleave(a) ==
    [k \in 1 .. a.nrows * a.ncols |->
        AsF32(a.cell[<<(k - 1) % a.nrows, (k - 1) \div a.nrows>>])]

\* Lines 35-40 and 52-63: write_data over an output buffer of n slots, with
\* next samples of data already taken. Every slot of every chunk takes
\* next_sample() in turn; a next() of None panics in expect().
write_data_Wraps(n, data, next) ==
    [out |-> [j \in 1 .. n |->
                 IF Len(data) = 0 THEN None
                 ELSE Some(data[((next + j - 1) % Len(data)) + 1])],
     next |-> IF next + n <= Len(data) THEN next + n ELSE Len(data),
     panicked |-> Len(data) = 0]
write_data(n, data, next) ==
    [out |-> [j \in 1 .. n |->
                 IF next + j <= Len(data) THEN Some(data[next + j]) ELSE None],
     next |-> IF next + n <= Len(data) THEN next + n ELSE Len(data),
     panicked |-> next + n > Len(data)]

\* The values written into a buffer, in slot order.
RECURSIVE Written(_)
Written(out) ==
    IF out = <<>> THEN <<>>
    ELSE IF Head(out) = None THEN Written(Tail(out))
    ELSE <<Unwrap(Head(out))>> \o Written(Tail(out))

\* The matrices handed to play: every cell distinct, none on the f32 grid.
PlayMatrix(ch, fr) ==
    [nrows |-> ch, ncols |-> fr,
     cell |-> [q \in (0 .. ch - 1) \X (0 .. fr - 1) |->
                  Rat(5 * (q[2] * ch + q[1]) + 1, 5)]]

\* Lines 17-20, 42-50, 65: no output device, or the stream cannot be built
\* or started: expect() or unwrap() panics.
PlaySetupFails ==
    /\ p_pc = "idle"
    /\ \E ch \in 1 .. MaxPlayChannels, fr \in 0 .. MaxPlayFrames :
          /\ p_arr' = PlayMatrix(ch, fr)
          /\ p_data' = Interleave(PlayMatrix(ch, fr))
    /\ p_pc' = "failed"
    /\ UNCHANGED <<p_next, p_handed, p_out, p_calls, loadVars, monoVars,
                   durVars>>

\* Lines 6-65: the interleaved data is built and the stream started.
PlayBegin ==
    /\ p_pc = "idle"
    /\ \E ch \in 1 .. MaxPlayChannels, fr \in 0 .. MaxPlayFrames :
          /\ p_arr' = PlayMatrix(ch, fr)
          /\ p_data' = Interleave(PlayMatrix(ch, fr))
    /\ p_pc' = "playing"
    /\ p_next' = 0
    /\ UNCHANGED <<p_handed, p_out, p_calls, loadVars, monoVars, durVars>>

\* Lines 45-47: the device invokes the callback with a buffer of n slots.
Callback ==
    /\ p_pc = "playing"
    /\ p_calls < MaxCalls
    /\ \E n \in 1 .. MaxBuffer :
          LET r == write_data(n, p_data, p_next)
          IN  /\ p_out' = r.out
              /\ p_next' = r.next
              /\ p_handed' = p_handed \o Written(r.out)
              /\ p_pc' = IF r.panicked THEN "panicked" ELSE "playing"
    /\ p_calls' = p_calls + 1
    /\ UNCHANGED <<p_arr, p_data, loadVars, monoVars, durVars>>

\* Line 66-67: the sleep ends, play returns and the stream is dropped.
PlayEnd ==
    /\ p_pc = "playing"
    /\ p_pc' = "stopped"
    /\ UNCHANGED <<p_arr, p_data, p_next, p_handed, p_out, p_calls, loadVars,
                   monoVars, durVars>>

InitPlay == InitLoad /\ InitMonoIdle /\ InitDurationIdle /\ InitPlayIdle

NextPlay ==
    \/ PlaySetupFails
    \/ PlayBegin
    \/ Callback
    \/ PlayEnd

SpecPlay == InitPlay /\ [][NextPlay]_vars

\* ================================================================ claims
\* round_down(offset * sample_rate), as a mathematical integer.
TrueOffsetFrames == Floor(RatMulInt(offset, sr))
\* The frames actually discarded: (offset * sr) as u32.
StoredOffsetFrames ==
    IF TrueOffsetFrames < 0 THEN 0
    ELSE IF TrueOffsetFrames > MaxU32 THEN MaxU32 ELSE TrueOffsetFrames
\* total_track_seconds - offset_seconds, and the effective duration.
RemainderSeconds == RatSub(Rat(n_frames, sr), offset)
EffectiveDuration ==
    IF duration = None \/ RatLe(RemainderSeconds, Unwrap(duration))
    THEN RemainderSeconds ELSE Unwrap(duration)
\* load has read the track's parameters and its arguments.
Called == pc # "idle" /\ err \notin SetupErrors
ColumnsZeroFrom(i) ==
    \A c \in 0 .. arr.nrows - 1, j \in i .. arr.ncols - 1 :
        arr.cell[<<c, j>>] = RatInt(0)

WindowWithinFile ==
    /\ duration # None
    /\ offset[1] >= 0
    /\ Unwrap(duration)[1] > 0
    /\ RatLe(RatAdd(offset, Unwrap(duration)), Rat(n_frames, sr))

\* C3 (as stated): for a window within the file bounds, a successful load
\* returns a matrix of exactly round_down(duration * sample_rate) frames,
\* mono or not (stated here for the loads that end by filling the matrix).
C3_FramesAsRequested ==
    (pc = "returned" /\ last = "decoded" /\ WindowWithinFile) =>
        arr.ncols = Floor(RatMulInt(Unwrap(duration), sr))

\* C4 (as stated): with the duration absent or larger than the remainder, for
\* an offset in [0, total_duration), the matrix returned has exactly
\* total_frames - round_down(offset * sample_rate) frames (stated here for
\* the tracks whose frame count fits u32 and the loads that end by filling
\* the matrix).
C4_ClampedToRemainder ==
    (/\ pc = "returned"
     /\ last = "decoded"
     /\ n_frames <= MaxU32
     /\ offset[1] >= 0
     /\ RemainderSeconds[1] > 0
     /\ (duration = None \/ ~RatLe(Unwrap(duration), RemainderSeconds))) =>
        arr.ncols = n_frames - TrueOffsetFrames

ValidationErrors ==
    {"duration must be a positive number",
     "offset bigger than or equal to total duration"}

\* C5: a call with round_down(offset * sample_rate) >= total_frames fails in
\* the window validation, whatever the duration: no matrix is returned and
\* no packet is pulled.
C5_OffsetBeyondEndFails ==
    (Called /\ TrueOffsetFrames >= n_frames) =>
        /\ pc = "failed"
        /\ err \in ValidationErrors
        /\ packets = 0
        /\ decodes = 0

\* An offset beyond the end whose u32 conversion saturates below n_frames,
\* with a positive requested duration.
C5_Witness ==
    /\ pc = "failed"
    /\ TrueOffsetFrames >= n_frames
    /\ n_frames > MaxU32
    /\ duration # None
    /\ Unwrap(duration)[1] > 0

C8_NonPositiveDurationFailsFirst ==
    (Called /\ RatLe(EffectiveDuration, RatInt(0))) =>
        /\ pc = "failed"
        /\ err = "duration must be a positive number"
        /\ packets = 0
        /\ decodes = 0

\* A requested duration of exactly 0 at an offset inside the file.
C8_Witness ==
    /\ pc = "failed"
    /\ duration = Some(<<0, TimeDen>>)
    /\ offset[1] >= 0
    /\ TrueOffsetFrames < n_frames

\* C9 (as stated): load never continues with a frame count that does not fit
\* u32: for an offset >= 0, offset * sample_rate and duration_to_decode *
\* sample_rate are at most u32::MAX whenever load gets past the validation.
C9_NoSaturatedCount ==
    (pc \in {"loop", "returned"} /\ offset[1] >= 0) =>
        /\ TrueOffsetFrames <= MaxU32
        /\ Floor(RatMulInt(EffectiveDuration, sr)) <= MaxU32

\* The sum of column n of m over the rows in S.
RECURSIVE ColumnSum(_, _, _)
ColumnSum(m, n, S) ==
    IF S = {} THEN RatInt(0)
    ELSE LET c == CHOOSE x \in S : TRUE
         IN  RatAdd(m.cell[<<c, n>>], ColumnSum(m, n, S \ {c}))

\* C10: to_mono of a (C, N) matrix, C >= 1, is a (1, N) matrix whose value at
\* frame n is the mean of the C samples at frame n; for C = 1 it equals the
\* input.  The R entry does the same on the transposed shapes.
C10_MonoIsMean ==
    /\ m_pc = "failed" => m_in.nrows = 0
    /\ m_pc = "failed_r" => m_in.ncols = 0
    /\ m_pc = "done" =>
        LET out == Unwrap(m_out)
        IN  /\ m_in.nrows >= 1
            /\ out.nrows = 1
            /\ out.ncols = m_in.ncols
            /\ \A n \in 0 .. m_in.ncols - 1 :
                  RatMulInt(out.cell[<<0, n>>], m_in.nrows)
                      = ColumnSum(m_in, n, 0 .. m_in.nrows - 1)
            /\ m_in.nrows = 1 => out = m_in
    /\ m_pc = "done_r" =>
        LET out == Unwrap(m_out)
        IN  /\ m_in.ncols >= 1
            /\ out.ncols = 1
            /\ out.nrows = m_in.nrows
            /\ \A n \in 0 .. m_in.nrows - 1 :
                  RatMulInt(out.cell[<<n, 0>>], m_in.ncols)
                      = ColumnSum(Transpose(m_in), n, 0 .. m_in.ncols - 1)

\* Two channels whose mean at some frame is not a whole number.
C10_Witness ==
    /\ m_pc = "done"
    /\ m_in.nrows = 2
    /\ m_in.ncols = 2
    /\ Unwrap(m_out).cell[<<0, 1>>] = <<1, 2>>

\* C11: get_duration picks its source by fixed priority: the file when fname
\* is given (whatever else is given, the result is the file's), else the
\* shape of s when s is given (also when r_arr is given), else the raw buffer
\* and the rate; with none of them the call fails.
C11_SourcePriority ==
    gd_pc # "idle" =>
        LET a == Unwrap(gd_args)
            o == Unwrap(gd_out)
        IN  /\ a.fname # None =>
                  /\ o.src = "file"
                  /\ o.value = IF Unwrap(a.fname).readable
                               THEN Some(Rat(Unwrap(a.fname).n_frames,
                                             Unwrap(a.fname).sr))
                               ELSE None
            /\ (a.fname = None /\ a.s # None) => o.src = "s"
            /\ (a.fname = None /\ a.s = None /\ a.r_arr # None) =>
                  /\ o.src = "r_arr"
                  /\ gd_pc = "done" =>
                        o.value = Some(Rat(Unwrap(a.r_arr).nrows, a.sr))
            /\ (a.fname = None /\ a.s = None /\ a.r_arr = None) =>
                  (gd_pc = "failed" /\ o.src = "none")

\* s and a raw buffer are both given, without a file, and the two would give
\* different durations.
C11_Witness ==
    /\ gd_pc = "done"
    /\ Unwrap(gd_args).fname = None
    /\ Unwrap(gd_args).s # None
    /\ Unwrap(gd_args).r_arr # None
    /\ Unwrap(Unwrap(gd_args).r_arr).is_matrix
    /\ Unwrap(gd_out).src = "s"
    /\ Unwrap(gd_out).value #
          Some(Rat(Unwrap(Unwrap(gd_args).r_arr).nrows, Unwrap(gd_args).sr))

\* The call takes the shape path with valid arguments.
ShapePath ==
    /\ gd_pc # "idle"
    /\ Unwrap(gd_args).fname = None
    /\ Unwrap(gd_args).s # None
    /\ Len(Unwrap(Unwrap(gd_args).s)) = 3
    /\ Unwrap(gd_args).sr > 0
    /\ Unwrap(gd_args).n_fft > 0
    /\ Unwrap(gd_args).hop_length > 0
\* n_fft + hop_length * (n_frames - 1), less n_fft - 1 (odd n_fft) or n_fft
\* (even n_fft) when centered, as mathematical integers.
ShapeProduct == Unwrap(gd_args).hop_length * (Unwrap(Unwrap(gd_args).s)[1] - 1)
ShapeCount ==
    Unwrap(gd_args).n_fft + ShapeProduct
      - (IF ~Unwrap(gd_args).center THEN 0
         ELSE IF Unwrap(gd_args).n_fft % 2 = 1
         THEN Unwrap(gd_args).n_fft - 1
         ELSE Unwrap(gd_args).n_fft)

\* C19: on the shape path with positive sr, n_fft and hop_length the result
\* is (n_fft + hop_length * (n_frames - 1), less 2 * (n_fft div 2) when
\* centered) / sr; the count is computed in i32 with no check of the code's
\* own: where an intermediate does not fit, the call returns the wrapped
\* count over sr, or panics in a build with arithmetic checks.
C19_ShapeDuration ==
    ShapePath =>
        IF /\ Fits32(ShapeProduct)
           /\ Fits32(Unwrap(gd_args).n_fft + ShapeProduct)
           /\ Fits32(ShapeCount)
        THEN /\ gd_pc = "done"
             /\ Unwrap(gd_out).value =
                   Some(Rat(ShapeCount, Unwrap(gd_args).sr))
        ELSE \/ gd_pc = "failed"
             \/ Unwrap(gd_out).value =
                   Some(Rat(Wrap32(ShapeCount), Unwrap(gd_args).sr))

\* A centered call with an odd n_fft above 1 whose uncentered count does not
\* fit i32 and which returns (the wrapped count of a release build).
C19_Witness ==
    /\ ShapePath
    /\ gd_pc = "done"
    /\ Unwrap(gd_args).center
    /\ Unwrap(gd_args).n_fft % 2 = 1
    /\ Unwrap(gd_args).n_fft > 1
    /\ Unwrap(Unwrap(gd_args).s)[1] > 1
    /\ ~Fits32(Unwrap(gd_args).n_fft + ShapeProduct)

\* C12 (as stated): the k-th sample handed to the device overall is
\* matrix[k mod channels][k div channels].
C12_HandedIsMatrixCell ==
    \A k \in 1 .. Len(p_handed) :
        p_handed[k] = p_arr.cell[<<(k - 1) % p_arr.nrows,
                                   (k - 1) \div p_arr.nrows>>]

\* C12 (amended): the k-th sample handed to the device overall is
\* matrix[k mod channels][k div channels] converted to f32; the samples are
\* consumed in order across invocations, none skipped, repeated or
\* reordered: what was handed is exactly the samples taken so far.
C12_HandedIsNarrowedCell ==
    /\ Len(p_handed) = p_next
    /\ \A k \in 1 .. Len(p_handed) :
          p_handed[k] = AsF32(p_arr.cell[<<(k - 1) % p_arr.nrows,
                                           (k - 1) \div p_arr.nrows>>])

\* Two channels, six samples handed over in three callbacks of unequal
\* sizes, the last of three slots: a frame is split between two buffers.
C12_Witness ==
    /\ p_pc = "playing"
    /\ p_arr.nrows = 2
    /\ p_calls = 3
    /\ Len(p_handed) = 6
    /\ Len(p_out) = 3

\* C13: once every sample of the interleaved sequence was handed over, the
\* next sample a callback asks for panics, also in the middle of a buffer:
\* the slots before the panic hold the last samples in order, the slots
\* from it on are not written (no wrap-around, no repeat, no silence), and
\* a callback that does not panic fills its whole buffer.
C13_ExhaustionPanics ==
    /\ [](/\ Len(p_handed) <= Len(p_data)
          /\ p_handed = SubSeq(p_data, 1, Len(p_handed))
          /\ p_pc = "panicked" =>
                /\ p_next = Len(p_data)
                /\ Len(p_handed) = Len(p_data)
                /\ p_out[Len(p_out)] = None
                /\ \A j \in 1 .. Len(p_out) - 1 :
                      p_out[j] = None => p_out[j + 1] = None
          /\ p_pc \in {"playing", "stopped"} =>
                \A j \in 1 .. Len(p_out) : p_out[j] # None)
    /\ [][(p_calls' = p_calls + 1 /\ p_next = Len(p_data)) =>
             (p_pc' = "panicked" /\ p_handed' = p_handed)]_vars

\* The sequence runs out in the middle of the third buffer.
C13_Witness ==
    /\ p_pc = "panicked"
    /\ p_calls = 3
    /\ Len(p_data) > 0
    /\ Len(p_out) > 1
    /\ p_out[1] # None
    /\ p_out[Len(p_out)] = None

\* The window validation of load has passed.
Validated == Called /\ err \notin ValidationErrors

\* C14: a packet of another track is never decoded and leaves
\* remaining_offset, remaining_length, idx and the matrix unchanged, wherever
\* it falls among the packets of the selected track; the loop goes on.
C14_OtherTrackSkipped ==
    [][(packets' = packets + 1 /\ last' = "other_track") =>
          /\ decodes' = decodes
          /\ pos' = pos
          /\ UNCHANGED <<offset_samples, duration_to_decode_samples, idx,
                         arr, sample_buf, pc, err>>]_vars

\* A packet of another track after a partly written window.
C14_Witness ==
    /\ last = "other_track"
    /\ pc = "loop"
    /\ decodes > 0
    /\ 0 < idx
    /\ idx < arr.ncols

\* C15: the step in which remaining_length reaches zero ends load with
\* success: the matrix is full, and from the returned state on nothing
\* changes (no next_packet, no decode, no write), whatever is left of the
\* run or of the stream.
C15_StopsWhenFull ==
    [][/\ (duration_to_decode_samples > 0
             /\ duration_to_decode_samples' = 0) =>
            (pc' = "returned" /\ err' = NoError /\ idx' = arr'.ncols)
       /\ pc = "returned" => UNCHANGED loadVars]_vars

\* The window was filled by a run that held more frames than were needed,
\* with packets still to come.
C15_Witness ==
    /\ pc = "returned"
    /\ last = "decoded"
    /\ idx = arr.ncols
    /\ pos > StoredOffsetFrames + arr.ncols
    /\ packets < MaxPackets

\* C16 (as stated): every load that passes the window validation has
\* length_frames > 0.
C16_LengthPositive ==
    Validated => arr.ncols > 0

\* C17 (as stated): every load that passes the window validation, whatever
\* the offset, has offset_frames + length_frames <= total_frames.
C17_WindowInsideTrack ==
    Validated => StoredOffsetFrames + arr.ncols <= n_frames

\* C18: when the demuxer yields finitely many packets and then reports the
\* end of the stream or an error, load terminates (returns or fails); every
\* turn of the loop takes one packet from the demuxer, and the turn that
\* gets end-of-stream or an error is the last, so that only an endless
\* supply of packets keeps load running.
C18_Terminates ==
    /\ <>(pc \in {"returned", "failed"})
    /\ [][pc = "loop" =>
            /\ packets' = packets + 1
            /\ last' \in {"eof", "packet_error"} =>
                  pc' \in {"returned", "failed"}]_vars

\* The demuxer yielded MaxPackets packets, none of which filled the window,
\* and then reported the end of the stream.
C18_Witness ==
    /\ pc = "returned"
    /\ last = "eof"
    /\ packets = MaxPackets + 1
    /\ idx < arr.ncols

\* C20 (as stated): in the packet loop of a validated load,
\* idx + remaining_length = length_frames, idx <= length_frames, and no
\* write targets a column outside the matrix or takes remaining_length
\* below zero.
C20_LoopWithinMatrix ==
    Validated =>
        /\ idx + duration_to_decode_samples = arr.ncols
        /\ 0 <= idx
        /\ idx <= arr.ncols
        /\ err \notin {"ndarray: index out of bounds",
                       "attempt to subtract with overflow"}

\* The sum over the first c channels of the samples of frame f.
RECURSIVE FrameSum(_, _)
FrameSum(f, c) ==
    IF c = 0 THEN RatInt(0) ELSE RatAdd(FrameSum(f, c - 1), Sample(c - 1, f))

====
